---- MODULE Spec2Model ----
(***************************************************************************)
(* Event ingestion pipeline of godo: the fetch -> transform -> load        *)
(* scraper framework (backend/scripts/scrapers), its command-line driver    *)
(* and the Celery tasks that schedule it.                                   *)
(*                                                                          *)
(* The events table is modelled as a set of rows addressed by a generated  *)
(* id: the source issues a select on (source, external_id) followed by a   *)
(* separate insert or update, and nothing in the source declares a         *)
(* uniqueness constraint on that pair.                                      *)
(*                                                                          *)
(* The modules are taken as importable and every name the scrapers use      *)
(* (settings fields, EventSource members) as resolved to what its use site  *)
(* expects.                                                                 *)
(***************************************************************************)
EXTENDS Integers, Sequences, FiniteSets, TLC

\* ------------------------------------------------------------------ bounds
MaxRuns == 2        \* executions of load() that may be in flight together
MaxExtId == 2       \* distinct external ids a source hands out
MaxPayload == 2     \* distinct field contents of one event
MaxLen == 2         \* longest event list handed to load()

Runs == 1..MaxRuns
ExtIds == 1..MaxExtId
Payloads == 1..MaxPayload

\* ------------------------------------------------------------------ registry
\* SCRAPERS of cli.py, in insertion order
SCRAPERS == <<"nyc_parks", "nyc_open_data", "ticketmaster">>

Sources == {SCRAPERS[k] : k \in 1..Len(SCRAPERS)}

None == "None"

\* An EventCreate as load() reads it: the identity key and the other fields
\* (title, times, location, ... collapsed into one payload value).
EventCreate == [source : Sources, external_id : ExtIds, payload : Payloads]

SeqsUpTo(S, n) == UNION {[1..k -> S] : k \in 0..n}

\* ------------------------------------------------------------------ state
VARIABLES
    store,          \* rows of the events table
    nextId,         \* next id the table generates on insert
    pc,             \* position of each execution
    dry_run,        \* BaseScraper.dry_run of the execution
    supabase,       \* db_manager.supabase_admin as load() read it
    events,         \* the list load() iterates over
    idx,            \* position of the for loop in events
    existing,       \* ids returned by the select of the current event
    new_count, updated_count, failed_count,
    startStore,     \* the table when load() was entered (history)
    db_errors,      \* calls on the client that raised during this load (history)
    db_writes       \* inserts and updates this execution issued (history)

loadVars == <<store, nextId, pc, dry_run, supabase, events, idx, existing,
              new_count, updated_count, failed_count, startStore, db_errors, db_writes>>

VARIABLES
    rpc,            \* position of each execution outside load()
    adapter,        \* the scraper class of the execution (its source)
    via,            \* "cli" (run_scraper) or "task" (a Celery task's _run)
    client,         \* BaseScraper.client
    page,           \* TicketmasterScraper.fetch: page
    raw_events,     \* fetch(): the list built so far, then returned
    t_idx,          \* run(): position of the transform loop
    transformed,    \* run(): transformed_events
    transform_failed,
    result,         \* the ScraperResult run() returned
    raised,         \* the exception that left the async with block
    fetch_error,    \* the exception fetch() raised (history)
    transform_calls,\* calls of transform() (history)
    load_calls      \* calls of load() (history)

runVars == <<rpc, adapter, via, client, page, raw_events, t_idx, transformed,
             transform_failed, result, raised, fetch_error, transform_calls, load_calls>>

VARIABLES
    ticketmaster_api_key,   \* settings.ticketmaster_api_key
    event_sources,          \* rows of the event_sources table, by source_name
                            \* (a function on the sources that have a row)
    feed_left,              \* raw items the providers may still return
    served,                 \* the items of the last feed response, before the
                            \* filter of fetch() (history)
    tracking                \* per source: how the last tracking write ended, and
                            \* whether one ever succeeded (history)

envVars == <<ticketmaster_api_key, event_sources, feed_left, served, tracking>>

VARIABLES
    cli_arg,        \* args.scraper
    cli_dry,        \* args.dry_run
    driver_pc,      \* position of main(), of scrape_all or of the beat scheduler
    b_idx,          \* run_all / scrape_all: position in the registry
    results,        \* the list of results collected
    exit_code,      \* exit status of the CLI process
    started,        \* scrapers a batch has started, in order (history)
    outcomes        \* the failure each of them ended with, or None (history)

VARIABLES
    task_state,     \* Celery state of the scheduled task of this occurrence
    task_source,    \* the source the occurrence scrapes
    executions,     \* times a worker started the task body for this occurrence
    redelivered,    \* of these, redeliveries after a lost worker (task_acks_late)
    occurrence      \* occurrences the beat schedule has fired

driverVars == <<cli_arg, cli_dry, driver_pc, b_idx, results, exit_code, started, outcomes,
                task_state, task_source, executions, redelivered, occurrence>>

vars == <<loadVars, runVars, envVars, driverVars>>

\* rows matching .eq("source", s).eq("external_id", x)
Matching(rows, s, x) == {row \in rows : row.source = s /\ row.external_id = x}

\* faulty variant of SelectIds: the .eq("external_id", ...) filter dropped
SelectIds_sourceOnly(rows, ev) == {row.id : row \in {x \in rows : x.source = ev.source}}

\* faulty variant of SelectIds: the .eq("source", ...) filter dropped
SelectIds_anySource(rows, ev) ==
    {row.id : row \in {x \in rows : x.external_id = ev.external_id}}

\* faulty variant of SelectIds: the lookup never finds a row
SelectIds_nothing(rows, ev) == {}

\* select("id")...execute().data of base.py
SelectIds(rows, ev) == {row.id : row \in Matching(rows, ev.source, ev.external_id)}

\* datetime.utcnow() at a write: later than every timestamp already stored
utcnow(rows) ==
    IF rows = {} THEN 1
    ELSE 1 + CHOOSE m \in {row.updated_at : row \in rows} :
                 \A row \in rows : row.updated_at <= m

\* table("events").insert(event_data): a new row under a generated id
InsertRow(rows, id, ev) ==
    rows \cup {[id |-> id, source |-> ev.source, external_id |-> ev.external_id,
                payload |-> ev.payload,
                is_active |-> TRUE, moderation_status |-> "approved",
                created_at |-> utcnow(rows), updated_at |-> utcnow(rows)]}

\* faulty variant of UpdateRow: the update writes the timestamp only
UpdateRow_keepsFields(rows, id, ev) ==
    {IF row.id = id THEN [row EXCEPT !.updated_at = utcnow(rows)] ELSE row : row \in rows}

\* faulty variant of UpdateRow: the update is filtered by source, not by id
UpdateRow_wholeSource(rows, id, ev) ==
    {IF row.source = ev.source
        THEN [row EXCEPT !.payload = ev.payload,
                         !.is_active = TRUE, !.moderation_status = "approved",
                         !.updated_at = utcnow(rows)]
        ELSE row : row \in rows}

\* faulty variant of UpdateRow: the update leaves is_active and
\* moderation_status out of event_data
UpdateRow_keepsModeration(rows, id, ev) ==
    {IF row.id = id
        THEN [row EXCEPT !.source = ev.source, !.external_id = ev.external_id,
                         !.payload = ev.payload, !.updated_at = utcnow(rows)]
        ELSE row : row \in rows}

\* faulty variant of UpdateRow: the update carries created_at like the insert
UpdateRow_resetsCreated(rows, id, ev) ==
    {IF row.id = id
        THEN [row EXCEPT !.source = ev.source, !.external_id = ev.external_id,
                         !.payload = ev.payload, !.created_at = utcnow(rows),
                         !.is_active = TRUE, !.moderation_status = "approved",
                         !.updated_at = utcnow(rows)]
        ELSE row : row \in rows}

\* table("events").update(event_data).eq("id", event_id)
UpdateRow(rows, id, ev) ==
    {IF row.id = id
        THEN [row EXCEPT !.source = ev.source, !.external_id = ev.external_id,
                         !.payload = ev.payload,
                         !.is_active = TRUE, !.moderation_status = "approved",
                         !.updated_at = utcnow(rows)]
        ELSE row : row \in rows}

CurrentEvent(r) == events[r][idx[r]]

\* after one iteration of the for loop: next event, or return
Advance(r) ==
    /\ idx' = [idx EXCEPT ![r] = idx[r] + 1]
    /\ pc' = [pc EXCEPT ![r] = IF idx[r] + 1 > Len(events[r]) THEN "done" ELSE "select"]
    /\ existing' = [existing EXCEPT ![r] = {}]

\* faulty variant of EnterLoad: the early return reports nothing as failed
EnterLoad_returnsZeros(r, evs, dry, cl) ==
    /\ dry_run' = [dry_run EXCEPT ![r] = dry]
    /\ supabase' = [supabase EXCEPT ![r] = cl]
    /\ events' = [events EXCEPT ![r] = evs]
    /\ existing' = [existing EXCEPT ![r] = {}]
    /\ new_count' = [new_count EXCEPT ![r] = 0]
    /\ updated_count' = [updated_count EXCEPT ![r] = 0]
    /\ startStore' = [startStore EXCEPT ![r] = store]
    /\ db_errors' = [db_errors EXCEPT ![r] = 0]
    /\ failed_count' = [failed_count EXCEPT ![r] = 0]
    /\ idx' = [idx EXCEPT ![r] = 1]
    /\ pc' = [pc EXCEPT ![r] = IF (cl = None /\ ~dry) \/ Len(evs) = 0 THEN "done" ELSE "select"]
    /\ UNCHANGED <<store, nextId, db_writes>>

\* ------------------------------------------------------------------ load()
\* Entry of load(events): counters zeroed, the admin client read, and the
\* early return when it is missing outside dry-run.
EnterLoad(r, evs, dry, cl) ==
    /\ dry_run' = [dry_run EXCEPT ![r] = dry]
    /\ supabase' = [supabase EXCEPT ![r] = cl]
    /\ events' = [events EXCEPT ![r] = evs]
    /\ existing' = [existing EXCEPT ![r] = {}]
    /\ new_count' = [new_count EXCEPT ![r] = 0]
    /\ updated_count' = [updated_count EXCEPT ![r] = 0]
    /\ startStore' = [startStore EXCEPT ![r] = store]
    /\ db_errors' = [db_errors EXCEPT ![r] = 0]
    /\ IF cl = None /\ ~dry
          THEN /\ failed_count' = [failed_count EXCEPT ![r] = Len(evs)]
               /\ idx' = [idx EXCEPT ![r] = 1]
               /\ pc' = [pc EXCEPT ![r] = "done"]
          ELSE /\ failed_count' = [failed_count EXCEPT ![r] = 0]
               /\ idx' = [idx EXCEPT ![r] = 1]
               /\ pc' = [pc EXCEPT ![r] = IF Len(evs) = 0 THEN "done" ELSE "select"]
    /\ UNCHANGED <<store, nextId, db_writes>>

\* faulty variant of DryRunStep: no lookup, every event reported as new
DryRunStep_noLookup(r) ==
    /\ pc[r] = "select"
    /\ dry_run[r]
    /\ new_count' = [new_count EXCEPT ![r] = @ + 1]
    /\ Advance(r)
    /\ UNCHANGED <<store, nextId, dry_run, supabase, events, updated_count, failed_count,
                   startStore, db_errors, db_writes>>

\* faulty variant of DryRunStep: the insert branch is not guarded by dry_run
DryRunStep_inserts(r) ==
    /\ pc[r] = "select"
    /\ dry_run[r]
    /\ LET exists == supabase[r] # None /\ SelectIds(store, CurrentEvent(r)) # {}
       IN /\ updated_count' = [updated_count EXCEPT ![r] = IF exists THEN @ + 1 ELSE @]
          /\ new_count' = [new_count EXCEPT ![r] = IF exists THEN @ ELSE @ + 1]
          /\ store' = IF exists THEN store ELSE InsertRow(store, nextId, CurrentEvent(r))
          /\ nextId' = IF exists THEN nextId ELSE nextId + 1
          /\ db_writes' = [db_writes EXCEPT ![r] = IF exists THEN @ ELSE @ + 1]
    /\ Advance(r)
    /\ UNCHANGED <<dry_run, supabase, events, failed_count, startStore, db_errors>>

\* dry-run iteration: the lookup (when a client exists) and the count
DryRunStep(r) ==
    /\ pc[r] = "select"
    /\ dry_run[r]
    /\ LET exists == supabase[r] # None /\ SelectIds(store, CurrentEvent(r)) # {}
       IN /\ updated_count' = [updated_count EXCEPT ![r] = IF exists THEN @ + 1 ELSE @]
          /\ new_count' = [new_count EXCEPT ![r] = IF exists THEN @ ELSE @ + 1]
    /\ Advance(r)
    /\ UNCHANGED <<store, nextId, dry_run, supabase, events, failed_count, startStore,
                   db_errors, db_writes>>

\* real iteration, first half: the select on (source, external_id)
SelectStep(r) ==
    /\ pc[r] = "select"
    /\ ~dry_run[r]
    /\ existing' = [existing EXCEPT ![r] = SelectIds(store, CurrentEvent(r))]
    /\ pc' = [pc EXCEPT ![r] = "write"]
    /\ UNCHANGED <<store, nextId, dry_run, supabase, events, idx,
                   new_count, updated_count, failed_count, startStore, db_errors, db_writes>>

\* real iteration, second half, existing.data non-empty: update by id
UpdateStep(r) ==
    /\ pc[r] = "write"
    /\ existing[r] # {}
    /\ \E event_id \in existing[r] :
          store' = UpdateRow(store, event_id, CurrentEvent(r))
    /\ updated_count' = [updated_count EXCEPT ![r] = @ + 1]
    /\ db_writes' = [db_writes EXCEPT ![r] = @ + 1]
    /\ Advance(r)
    /\ UNCHANGED <<nextId, dry_run, supabase, events, new_count, failed_count, startStore, db_errors>>

\* real iteration, second half, existing.data empty: insert
InsertStep(r) ==
    /\ pc[r] = "write"
    /\ existing[r] = {}
    /\ store' = InsertRow(store, nextId, CurrentEvent(r))
    /\ nextId' = nextId + 1
    /\ new_count' = [new_count EXCEPT ![r] = @ + 1]
    /\ db_writes' = [db_writes EXCEPT ![r] = @ + 1]
    /\ Advance(r)
    /\ UNCHANGED <<dry_run, supabase, events, updated_count, failed_count, startStore, db_errors>>

\* faulty variant of LoadErrorStep: the failure is logged but not counted
LoadErrorStep_uncounted(r) ==
    /\ pc[r] \in {"select", "write"}
    /\ supabase[r] # None
    /\ db_errors' = [db_errors EXCEPT ![r] = @ + 1]
    /\ Advance(r)
    /\ UNCHANGED <<store, nextId, dry_run, supabase, events,
                   new_count, updated_count, failed_count, startStore, db_writes>>

\* except Exception inside the loop: a select, update or insert that raises
\* (only a call on a client can raise; a dry run without client makes none)
LoadErrorStep(r) ==
    /\ pc[r] \in {"select", "write"}
    /\ supabase[r] # None
    /\ failed_count' = [failed_count EXCEPT ![r] = @ + 1]
    /\ db_errors' = [db_errors EXCEPT ![r] = @ + 1]
    /\ Advance(r)
    /\ UNCHANGED <<store, nextId, dry_run, supabase, events,
                   new_count, updated_count, startStore, db_writes>>

LoadStep(r) ==
    \/ DryRunStep(r)
    \/ SelectStep(r)
    \/ UpdateStep(r)
    \/ InsertStep(r)
    \/ LoadErrorStep(r)

\* ------------------------------------------------------------------ raw items
MaxFeed == 2        \* raw items the providers return in one behaviour
MaxSharedFeed == 1  \* raw items the providers return while runs follow one another
MaxBody == 1        \* distinct contents of a raw item besides title, start and id
MaxHalf == 3        \* highest provider price, in half dollars
TicksPerDay == 4    \* instants of one day the model tells apart

\* A provider item, by what the adapters look at. title: the key is absent or
\* holds "" ("absent"), holds JSON null, holds only blanks, or holds text.
\* start: the start field is absent, does not parse, or parses. id: the
\* provider's identifier, 0 when it supplies none. region: no borough or venue
\* can be read off the item ("absent"), the borough key holds JSON null, or
\* the item names a borough inside or outside ALLOWED_BOROUGHS. end: no end
\* is given, or the end the adapter reads off the item is after / not after
\* its start (NYC Parks reads an end time of day without end date as the next
\* day when it is not after the start: "after"). price: priceRanges[0] of a
\* Ticketmaster item, min and max in half dollars (the provider sends
\* decimals), max NoMax when the key is absent or null; an item without
\* priceRanges reads like min 0 without max. day, time: the start date of a
\* feed item, in days from today, and its start time of day, in ticks (an
\* item without start time reads like time 0).
TitleVals == {"absent", "null", "blank", "text"}
StartVals == {"absent", "bad", "ok"}
RegionVals == {"absent", "null", "allowed", "outside"}
EndVals == {"absent", "not_after", "after"}
NoMax == -1
PriceRanges == [min : 0..MaxHalf, max : {NoMax} \cup 0..MaxHalf]
NoPriceRange == [min |-> 0, max |-> NoMax]
\* timedelta(days=30)
days == 30

\* datetime.utcnow() in fetch(), in ticks from today 00:00
now == 1

cutoff == now + days * TicksPerDay

DayVals == {-1, 0, 1, days - 1, days, days + 1}
TimeVals == 0..(TicksPerDay - 1)

AllRawItems == [title : TitleVals, start : StartVals, id : 0..MaxExtId, body : 1..MaxBody,
                region : RegionVals, end : EndVals, price : PriceRanges,
                day : DayVals, time : TimeVals]

\* the items the providers serve: title, start and id vary on items of an
\* allowed borough without end; region or end vary on items with title and start
RawItems ==
    {raw \in AllRawItems :
        /\ raw.price = NoPriceRange
        /\ raw.day = 1 /\ raw.time = 0
        /\ \/ raw.region = "allowed" /\ raw.end = "absent"
           \/ /\ raw.title = "text" /\ raw.start = "ok"
              /\ raw.region = "allowed" \/ raw.end = "absent"}

\* external id built from the md5 digest of (title, start string, location):
\* every id-less item of the model carries the same triple
DigestId == 0

\* EventBase.validate_end_time: an end that is not after the start is refused
validate_end_time(v) == v # "not_after"

Skip == [kind |-> "skip"]
Raises == [kind |-> "raise"]

\* EventCreate(...): the event, or the ValidationError of the end-time validator
Produces(s, x, b, e) ==
    IF validate_end_time(e)
       THEN [kind |-> "event", ev |-> [source |-> s, external_id |-> x, payload |-> b],
             end_time |-> e, price_min |-> 0, price_max |-> 0]
       ELSE Raises

\* int(): a decimal price cut to whole dollars
int(half) == half \div 2

\* TicketmasterScraper._extract_price_range
extract_price_range(p) ==
    [min |-> int(p.min), max |-> IF p.max = NoMax THEN NoMax ELSE int(p.max)]

\* EventBase.validate_price_max: "if v and ... v < values['price_min']: raise"
validate_price_max(v, price_min) == ~(v # NoMax /\ v # 0 /\ v < price_min)

\* EventCreate(price_min=price_min, price_max=price_max, ...) of Ticketmaster
Priced(out, p) ==
    IF out.kind # "event" THEN out
    ELSE IF ~validate_price_max(extract_price_range(p).max, extract_price_range(p).min)
         THEN Raises
    ELSE [out EXCEPT !.price_min = extract_price_range(p).min,
                     !.price_max = extract_price_range(p).max]

\* "if end_time and end_time <= date_time: end_time = None"
DropInvalidEnd(e) == IF e = "after" THEN "after" ELSE "null"

\* faulty variant of ParksTransform: the end time is handed on as parsed
ParksTransform_keepsEnd(raw) ==
    IF raw.region = "outside" THEN Skip
    ELSE IF raw.title \in {"absent", "null"} THEN Skip
    ELSE IF raw.start # "ok" THEN Skip
    ELSE IF raw.title = "blank" THEN Raises
    ELSE Produces("nyc_parks", IF raw.id # 0 THEN raw.id ELSE DigestId, raw.body,
                  IF raw.end = "absent" THEN "null" ELSE raw.end)

\* NYCParksScraper.transform
ParksTransform(raw) ==
    IF raw.region = "outside" THEN Skip                     \* borough not in ALLOWED_BOROUGHS
    ELSE IF raw.title \in {"absent", "null"} THEN Skip      \* if not title
    ELSE IF raw.start # "ok" THEN Skip                      \* if not event_date
    ELSE IF raw.title = "blank" THEN Raises                 \* EventCreate(title="")
    ELSE Produces("nyc_parks", IF raw.id # 0 THEN raw.id ELSE DigestId, raw.body,
                  DropInvalidEnd(raw.end))

\* faulty variant of OpenDataTransform: an end that is not after the start
\* makes the item a skip
OpenDataTransform_skipsEnd(raw) ==
    IF raw.title = "null" THEN Raises
    ELSE IF raw.title \in {"absent", "blank"} THEN Skip
    ELSE IF raw.start # "ok" THEN Skip
    ELSE IF raw.end = "not_after" THEN Skip
    ELSE IF raw.region = "null" THEN Raises
    ELSE Produces("nyc_open_data", IF raw.id # 0 THEN raw.id ELSE DigestId, raw.body,
                  DropInvalidEnd(raw.end))

\* NYCOpenDataScraper.transform
OpenDataTransform(raw) ==
    IF raw.title = "null" THEN Raises                       \* None.strip()
    ELSE IF raw.title \in {"absent", "blank"} THEN Skip     \* if not title
    ELSE IF raw.start # "ok" THEN Skip                      \* if not date_time
    ELSE IF raw.region = "null" THEN Raises                 \* None.strip()
    ELSE Produces("nyc_open_data", IF raw.id # 0 THEN raw.id ELSE DigestId, raw.body,
                  DropInvalidEnd(raw.end))

\* TicketmasterScraper.transform
TicketmasterTransform(raw) ==
    IF raw.region = "outside" THEN Skip                     \* not _is_in_target_area
    ELSE IF raw.title \in {"absent", "null"} THEN Skip      \* if not name
    ELSE IF raw.start # "ok" THEN Skip                      \* if not date_str / except
    ELSE IF raw.id = 0 THEN Skip                            \* if not external_id
    ELSE Priced(Produces("ticketmaster", raw.id, raw.body, "null"), raw.price)

\* self.transform(raw_event), dispatched on the scraper class
Transform(s, raw) ==
    CASE s = "nyc_parks" -> ParksTransform(raw)
      [] s = "nyc_open_data" -> OpenDataTransform(raw)
      [] s = "ticketmaster" -> TicketmasterTransform(raw)

\* _parse_date on the start date of a NYC Parks item: midnight of that day
parse_date(raw) == raw.day * TicksPerDay

\* the start of the event: the start date with hour and minute replaced by
\* the start time (NYC Parks transform), or the parsed start_date_time
start_instant(raw) == raw.day * TicksPerDay + raw.time

\* the client-side filter of fetch(). NYC Parks keeps an item whose start
\* date parses to a midnight between now and the cutoff; NYC Open Data drops
\* an item of a borough outside ALLOWED_BOROUGHS (and one whose borough is
\* null: None.strip() raises, except: continue) and keeps an item whose start
\* parses to an instant up to the cutoff (the $where of the request leaves
\* the items from now on)
KeepInFetch(s, raw) ==
    IF s = "nyc_parks"
       THEN raw.start = "ok" /\ now <= parse_date(raw) /\ parse_date(raw) <= cutoff
       ELSE /\ raw.region \notin {"outside", "null"}
            /\ raw.start = "ok" /\ start_instant(raw) <= cutoff

FilterFetched(s, items) ==
    LET Keep(raw) == KeepInFetch(s, raw) IN SelectSeq(items, Keep)

\* ------------------------------------------------------------------ run()
max_pages == 5

NoClientMessage == "Scraper must be used as async context manager"
NoKeyMessage == "TICKETMASTER_API_KEY not configured"
TransportErrors == {"timeout", "http_status"}

ScraperResult(s, found, new, updated, failed, err) ==
    [source |-> s, events_found |-> found, events_new |-> new,
     events_updated |-> updated, events_failed |-> failed, error_message |-> err]

\* faulty variant of FetchRaises: the items of the pages already retrieved
\* are reported as found
FetchRaises_partialFound(r, msg) ==
    /\ fetch_error' = [fetch_error EXCEPT ![r] = msg]
    /\ result' = [result EXCEPT ![r] =
                    ScraperResult(adapter[r], Len(raw_events[r]), 0, 0, 0, msg)]
    /\ rpc' = [rpc EXCEPT ![r] = "built"]
    /\ UNCHANGED <<raw_events, t_idx, transformed, transform_failed, feed_left, served>>

\* except Exception in run(): every counter still at its initial 0
FetchRaises(r, msg) ==
    /\ fetch_error' = [fetch_error EXCEPT ![r] = msg]
    /\ result' = [result EXCEPT ![r] = ScraperResult(adapter[r], 0, 0, 0, 0, msg)]
    /\ rpc' = [rpc EXCEPT ![r] = "built"]
    /\ UNCHANGED <<raw_events, t_idx, transformed, transform_failed, feed_left, served>>

\* fetch() returned: run() enters the transform loop
FetchReturns(r, items) ==
    /\ raw_events' = [raw_events EXCEPT ![r] = items]
    /\ t_idx' = [t_idx EXCEPT ![r] = 1]
    /\ transformed' = [transformed EXCEPT ![r] = <<>>]
    /\ transform_failed' = [transform_failed EXCEPT ![r] = 0]
    /\ rpc' = [rpc EXCEPT ![r] = "transform"]
    /\ UNCHANGED <<result, fetch_error>>

\* NYCParksScraper.fetch / NYCOpenDataScraper.fetch: one request, then the
\* filter, on a response whose items are one of Feeds
FetchFeedFrom(r, Feeds) ==
    /\ rpc[r] = "fetch"
    /\ adapter[r] \in {"nyc_parks", "nyc_open_data"}
    /\ IF client[r] = None
          THEN FetchRaises(r, NoClientMessage)
          ELSE \/ \E msg \in TransportErrors : FetchRaises(r, msg)
               \/ \E items \in Feeds :
                     /\ Len(items) <= feed_left
                     /\ FetchReturns(r, FilterFetched(adapter[r], items))
                     /\ feed_left' = feed_left - Len(items)
                     /\ served' = items
    /\ UNCHANGED page
    /\ UNCHANGED <<adapter, via, client, raised, transform_calls, load_calls>>
    /\ UNCHANGED <<loadVars, ticketmaster_api_key, event_sources, tracking>>

\* the feed request on a response of any size the provider still has items for
FetchFeed(r) == FetchFeedFrom(r, SeqsUpTo(RawItems, feed_left))

\* faulty variant of FetchPage: the key is looked at after the request
FetchPage_keyAfterRequest(r) ==
    /\ rpc[r] = "fetch"
    /\ adapter[r] = "ticketmaster"
    /\ \/ (\E msg \in TransportErrors : FetchRaises(r, msg)) /\ UNCHANGED page
       \/ /\ ticketmaster_api_key = None
          /\ FetchRaises(r, NoKeyMessage)
          /\ UNCHANGED page
       \/ /\ ticketmaster_api_key # None
          /\ FetchReturns(r, raw_events[r])
          /\ UNCHANGED <<page, feed_left>>
    /\ UNCHANGED <<adapter, via, client, raised, transform_calls, load_calls>>
    /\ UNCHANGED <<loadVars, ticketmaster_api_key, event_sources, tracking, served>>

\* faulty variant of FetchPageFrom: "while True" instead of "while page < max_pages"
FetchPageFrom_noCap(r, Pages) ==
    /\ rpc[r] = "fetch"
    /\ adapter[r] = "ticketmaster"
    /\ IF ticketmaster_api_key = None
          THEN FetchRaises(r, NoKeyMessage) /\ UNCHANGED page
          ELSE \/ (\E msg \in TransportErrors : FetchRaises(r, msg)) /\ UNCHANGED page
               \/ \E items \in Pages, total_pages \in 0..(max_pages + 1) :
                     LET all_events == raw_events[r] \o items
                     IN /\ Len(items) <= feed_left
                        /\ feed_left' = feed_left - Len(items)
                        /\ IF \/ items = <<>>
                              \/ page[r] >= total_pages - 1
                              THEN FetchReturns(r, all_events) /\ UNCHANGED page
                              ELSE /\ raw_events' = [raw_events EXCEPT ![r] = all_events]
                                   /\ page' = [page EXCEPT ![r] = @ + 1]
                                   /\ UNCHANGED <<rpc, t_idx, transformed,
                                                  transform_failed, result, fetch_error>>
    /\ UNCHANGED <<adapter, via, client, raised, transform_calls, load_calls>>
    /\ UNCHANGED <<loadVars, ticketmaster_api_key, event_sources, tracking, served>>

\* TicketmasterScraper.fetch: the key check, then one pass of the page loop,
\* on a response whose events are one of Pages
FetchPageFrom(r, Pages) ==
    /\ rpc[r] = "fetch"
    /\ adapter[r] = "ticketmaster"
    /\ IF ticketmaster_api_key = None
          THEN FetchRaises(r, NoKeyMessage) /\ UNCHANGED page
          ELSE \/ (\E msg \in TransportErrors : FetchRaises(r, msg)) /\ UNCHANGED page
               \/ \E items \in Pages, total_pages \in 0..(max_pages + 1) :
                     LET all_events == raw_events[r] \o items
                     IN /\ Len(items) <= feed_left
                        /\ feed_left' = feed_left - Len(items)
                        /\ IF \/ items = <<>>
                              \/ page[r] >= total_pages - 1
                              \/ page[r] + 1 >= max_pages
                              THEN FetchReturns(r, all_events) /\ UNCHANGED page
                              ELSE /\ raw_events' = [raw_events EXCEPT ![r] = all_events]
                                   /\ page' = [page EXCEPT ![r] = @ + 1]
                                   /\ UNCHANGED <<rpc, t_idx, transformed,
                                                  transform_failed, result, fetch_error>>
    /\ UNCHANGED <<adapter, via, client, raised, transform_calls, load_calls>>
    /\ UNCHANGED <<loadVars, ticketmaster_api_key, event_sources, tracking, served>>

\* the page loop on responses of any size the provider still has items for
FetchPage(r) == FetchPageFrom(r, SeqsUpTo(RawItems, feed_left))

\* faulty variant of TransformStep: the try/except encloses the loop, so the
\* first exception ends it
TransformStep_stopsOnRaise(r) ==
    /\ rpc[r] = "transform"
    /\ t_idx[r] <= Len(raw_events[r])
    /\ LET out == Transform(adapter[r], raw_events[r][t_idx[r]])
       IN /\ transformed' = [transformed EXCEPT ![r] =
                               IF out.kind = "event" THEN Append(@, out.ev) ELSE @]
          /\ transform_failed' = [transform_failed EXCEPT ![r] =
                               IF out.kind = "raise" THEN @ + 1 ELSE @]
          /\ t_idx' = [t_idx EXCEPT ![r] =
                               IF out.kind = "raise" THEN Len(raw_events[r]) + 1 ELSE @ + 1]
    /\ transform_calls' = [transform_calls EXCEPT ![r] = @ + 1]
    /\ UNCHANGED <<rpc, adapter, via, client, page, raw_events, result, raised,
                   fetch_error, load_calls>>
    /\ UNCHANGED <<loadVars, envVars>>

\* one iteration of the transform loop of run()
TransformStep(r) ==
    /\ rpc[r] = "transform"
    /\ t_idx[r] <= Len(raw_events[r])
    /\ LET out == Transform(adapter[r], raw_events[r][t_idx[r]])
       IN /\ transformed' = [transformed EXCEPT ![r] =
                               IF out.kind = "event" THEN Append(@, out.ev) ELSE @]
          /\ transform_failed' = [transform_failed EXCEPT ![r] =
                               IF out.kind = "raise" THEN @ + 1 ELSE @]
    /\ t_idx' = [t_idx EXCEPT ![r] = @ + 1]
    /\ transform_calls' = [transform_calls EXCEPT ![r] = @ + 1]
    /\ UNCHANGED <<rpc, adapter, via, client, page, raw_events, result, raised,
                   fetch_error, load_calls>>
    /\ UNCHANGED <<loadVars, envVars>>

\* run() calls self.load(transformed_events)
RunLoad(r) ==
    /\ rpc[r] = "transform"
    /\ t_idx[r] > Len(raw_events[r])
    /\ \E cl \in {None, "client"} : EnterLoad(r, transformed[r], dry_run[r], cl)
    /\ rpc' = [rpc EXCEPT ![r] = "load"]
    /\ load_calls' = [load_calls EXCEPT ![r] = @ + 1]
    /\ UNCHANGED <<adapter, via, client, page, raw_events, t_idx, transformed,
                   transform_failed, result, raised, fetch_error, transform_calls>>
    /\ UNCHANGED envVars

\* load() at work inside run()
RunLoadStep(r) ==
    /\ rpc[r] = "load"
    /\ LoadStep(r)
    /\ UNCHANGED <<runVars, envVars>>

\* load() returned: run() builds the ScraperResult and returns it
RunReturns(r) ==
    /\ rpc[r] = "load"
    /\ pc[r] = "done"
    /\ result' = [result EXCEPT ![r] =
                    ScraperResult(adapter[r], Len(raw_events[r]), new_count[r],
                                  updated_count[r],
                                  transform_failed[r] + failed_count[r], None)]
    /\ rpc' = [rpc EXCEPT ![r] = "built"]
    /\ UNCHANGED <<adapter, via, client, page, raw_events, t_idx, transformed,
                   transform_failed, raised, fetch_error, transform_calls, load_calls>>
    /\ UNCHANGED <<loadVars, envVars>>

\* ------------------------------------------------------------------ async with scraper_class(...)
\* the state of a fresh execution slot
StartScraper(r, s, how, dry) ==
    /\ rpc' = [rpc EXCEPT ![r] = "construct"]
    /\ adapter' = [adapter EXCEPT ![r] = s]
    /\ via' = [via EXCEPT ![r] = how]
    /\ dry_run' = [dry_run EXCEPT ![r] = dry]
    /\ client' = [client EXCEPT ![r] = None]
    /\ page' = [page EXCEPT ![r] = 0]
    /\ raw_events' = [raw_events EXCEPT ![r] = <<>>]
    /\ t_idx' = [t_idx EXCEPT ![r] = 1]
    /\ transformed' = [transformed EXCEPT ![r] = <<>>]
    /\ transform_failed' = [transform_failed EXCEPT ![r] = 0]
    /\ result' = [result EXCEPT ![r] = None]
    /\ raised' = [raised EXCEPT ![r] = None]
    /\ fetch_error' = [fetch_error EXCEPT ![r] = None]
    /\ transform_calls' = [transform_calls EXCEPT ![r] = 0]
    /\ load_calls' = [load_calls EXCEPT ![r] = 0]
    /\ pc' = [pc EXCEPT ![r] = "idle"]
    /\ events' = [events EXCEPT ![r] = <<>>]
    /\ idx' = [idx EXCEPT ![r] = 1]
    /\ existing' = [existing EXCEPT ![r] = {}]
    /\ new_count' = [new_count EXCEPT ![r] = 0]
    /\ updated_count' = [updated_count EXCEPT ![r] = 0]
    /\ failed_count' = [failed_count EXCEPT ![r] = 0]
    /\ db_errors' = [db_errors EXCEPT ![r] = 0]
    /\ db_writes' = [db_writes EXCEPT ![r] = 0]
    /\ startStore' = [startStore EXCEPT ![r] = store]
    /\ UNCHANGED <<store, nextId, supabase>>

\* BaseScraper.__init__: the instance, or an exception to the caller
Construct(r) ==
    /\ rpc[r] = "construct"
    /\ \/ rpc' = [rpc EXCEPT ![r] = "aenter"] /\ UNCHANGED raised
       \/ /\ rpc' = [rpc EXCEPT ![r] = "raised"]
          /\ raised' = [raised EXCEPT ![r] = "init failed"]
    /\ UNCHANGED <<adapter, via, client, page, raw_events, t_idx, transformed,
                   transform_failed, result, fetch_error, transform_calls, load_calls>>
    /\ UNCHANGED <<loadVars, envVars>>

\* BaseScraper.__aenter__: the HTTP client, or an exception to the caller
Aenter(r) ==
    /\ rpc[r] = "aenter"
    /\ \/ /\ client' = [client EXCEPT ![r] = "open"]
          /\ rpc' = [rpc EXCEPT ![r] = "fetch"]
          /\ UNCHANGED raised
       \/ /\ rpc' = [rpc EXCEPT ![r] = "raised"]
          /\ raised' = [raised EXCEPT ![r] = "client failed"]
          /\ UNCHANGED client
    /\ UNCHANGED <<adapter, via, page, raw_events, t_idx, transformed,
                   transform_failed, result, fetch_error, transform_calls, load_calls>>
    /\ UNCHANGED <<loadVars, envVars>>

\* faulty variant of TrackingRecord: the status does not look at the error
TrackingRecord_alwaysSuccess(res) ==
    [last_sync_status |-> "success",
     events_found |-> res.events_found,
     events_new |-> res.events_new,
     events_updated |-> res.events_updated,
     error_message |-> res.error_message]

\* _log_scraper_run: the record upserted under source_name
TrackingRecord(res) ==
    [last_sync_status |-> IF res.error_message = None THEN "success" ELSE "failed",
     events_found |-> res.events_found,
     events_new |-> res.events_new,
     events_updated |-> res.events_updated,
     error_message |-> res.error_message]

\* faulty variant of LogScraperRun: a failing tracking write is not caught
\* and leaves the async with block as an exception
LogScraperRun_raises(r) ==
    /\ rpc[r] = "built"
    /\ via[r] = "task"
    /\ \/ /\ UNCHANGED event_sources
          /\ tracking' = [tracking EXCEPT ![adapter[r]].last = "failed"]
          /\ rpc' = [rpc EXCEPT ![r] = "raised"]
          /\ raised' = [raised EXCEPT ![r] = "tracking failed"]
          /\ client' = [client EXCEPT ![r] = None]
       \/ /\ event_sources' = [s \in DOMAIN event_sources \cup {adapter[r]} |->
                                  IF s = adapter[r] THEN TrackingRecord(result[r])
                                                    ELSE event_sources[s]]
          /\ tracking' = [tracking EXCEPT ![adapter[r]] = [last |-> "written", ever |-> TRUE]]
          /\ rpc' = [rpc EXCEPT ![r] = "logged"]
          /\ UNCHANGED <<raised, client>>
    /\ UNCHANGED <<adapter, via, page, raw_events, t_idx, transformed,
                   transform_failed, result, fetch_error, transform_calls,
                   load_calls>>
    /\ UNCHANGED <<loadVars, ticketmaster_api_key, feed_left, served>>

\* _log_scraper_run: the upsert of the source's tracking row; a missing
\* client or a failing upsert is logged and swallowed
LogScraperRun(r) ==
    /\ rpc[r] = "built"
    /\ via[r] = "task"
    /\ \/ /\ UNCHANGED event_sources
          /\ tracking' = [tracking EXCEPT ![adapter[r]].last = "failed"]
       \/ /\ event_sources' = [s \in DOMAIN event_sources \cup {adapter[r]} |->
                                  IF s = adapter[r] THEN TrackingRecord(result[r])
                                                    ELSE event_sources[s]]
          /\ tracking' = [tracking EXCEPT ![adapter[r]] = [last |-> "written", ever |-> TRUE]]
    /\ rpc' = [rpc EXCEPT ![r] = "logged"]
    /\ UNCHANGED <<adapter, via, client, page, raw_events, t_idx, transformed,
                   transform_failed, result, raised, fetch_error, transform_calls,
                   load_calls>>
    /\ UNCHANGED <<loadVars, ticketmaster_api_key, feed_left, served>>

\* faulty variant of Aexit: the client is closed but the attribute keeps it
Aexit_keepsClient(r) ==
    /\ \/ rpc[r] = "built" /\ via[r] = "cli"
       \/ rpc[r] = "logged"
    /\ rpc' = [rpc EXCEPT ![r] = "returned"]
    /\ UNCHANGED <<adapter, via, client, page, raw_events, t_idx, transformed,
                   transform_failed, result, raised, fetch_error, transform_calls,
                   load_calls>>
    /\ UNCHANGED <<loadVars, envVars>>

\* BaseScraper.__aexit__ on leaving the block: the client closed and unset
Aexit(r) ==
    /\ \/ rpc[r] = "built" /\ via[r] = "cli"
       \/ rpc[r] = "logged"
    /\ client' = [client EXCEPT ![r] = None]
    /\ rpc' = [rpc EXCEPT ![r] = "returned"]
    /\ UNCHANGED <<adapter, via, page, raw_events, t_idx, transformed,
                   transform_failed, result, raised, fetch_error, transform_calls,
                   load_calls>>
    /\ UNCHANGED <<loadVars, envVars>>

\* ------------------------------------------------------------------ initial values
InitSlots ==
    /\ pc = [r \in Runs |-> "idle"]
    /\ dry_run = [r \in Runs |-> FALSE]
    /\ supabase = [r \in Runs |-> None]
    /\ events = [r \in Runs |-> <<>>]
    /\ idx = [r \in Runs |-> 1]
    /\ existing = [r \in Runs |-> {}]
    /\ new_count = [r \in Runs |-> 0]
    /\ updated_count = [r \in Runs |-> 0]
    /\ failed_count = [r \in Runs |-> 0]
    /\ startStore = [r \in Runs |-> {}]
    /\ db_errors = [r \in Runs |-> 0]
    /\ db_writes = [r \in Runs |-> 0]
    /\ rpc = [r \in Runs |-> "idle"]
    /\ adapter = [r \in Runs |-> SCRAPERS[1]]
    /\ via = [r \in Runs |-> "cli"]
    /\ client = [r \in Runs |-> None]
    /\ page = [r \in Runs |-> 0]
    /\ raw_events = [r \in Runs |-> <<>>]
    /\ t_idx = [r \in Runs |-> 1]
    /\ transformed = [r \in Runs |-> <<>>]
    /\ transform_failed = [r \in Runs |-> 0]
    /\ result = [r \in Runs |-> None]
    /\ raised = [r \in Runs |-> None]
    /\ fetch_error = [r \in Runs |-> None]
    /\ transform_calls = [r \in Runs |-> 0]
    /\ load_calls = [r \in Runs |-> 0]

InitDriver ==
    /\ cli_arg = "all"
    /\ cli_dry = FALSE
    /\ driver_pc = "start"
    /\ b_idx = 1
    /\ results = <<>>
    /\ exit_code = None
    /\ started = <<>>
    /\ outcomes = <<>>
    /\ task_state = None
    /\ task_source = SCRAPERS[1]
    /\ executions = 0
    /\ redelivered = 0
    /\ occurrence = 0

InitEnv ==
    /\ ticketmaster_api_key = "key"
    /\ event_sources = [s \in {} |-> None]
    /\ tracking = [s \in Sources |-> [last |-> None, ever |-> FALSE]]
    /\ feed_left = 0
    /\ served = <<>>

\* ------------------------------------------------------------------ callers of load()
EventLists == UNION {SeqsUpTo([source : {s}, external_id : ExtIds, payload : Payloads], MaxLen)
                        : s \in Sources}

\* a caller hands a list to load() on an idle execution
CallLoad(r) ==
    /\ pc[r] = "idle"
    /\ \E evs \in EventLists, dry \in BOOLEAN, cl \in {None, "client"} :
          EnterLoad(r, evs, dry, cl)

InitLoad ==
    /\ store = {}
    /\ nextId = 1
    /\ InitSlots
    /\ InitDriver
    /\ InitEnv

\* executions of load() overlapping freely: a scheduled task, a redelivered
\* task (task_acks_late) and a manual CLI run are separate processes
NextLoad ==
    \E r \in Runs :
        (CallLoad(r) \/ LoadStep(r)) /\ UNCHANGED <<runVars, envVars, driverVars>>

SpecLoad == InitLoad /\ [][NextLoad]_vars


\* ------------------------------------------------------------------ one caller at a time
MaxPre == 1         \* rows already in the table when the first load() starts

\* tables left by earlier loads of one source: external ids 1..k under ids 1..k
PreStores ==
    {{[id |-> x, source |-> s, external_id |-> x, payload |-> f[x],
       is_active |-> TRUE, moderation_status |-> "approved",
       created_at |-> x, updated_at |-> x] : x \in 1..k} :
        <<s, k, f>> \in
            UNION {{<<s0, k0, f0>> : f0 \in [1..k0 -> Payloads]} :
                     <<s0, k0>> \in Sources \X (0..MaxPre)}}

InitSeq ==
    /\ store \in PreStores
    /\ nextId = Cardinality(store) + 1
    /\ InitSlots
    /\ InitDriver
    /\ InitEnv

\* execution r is called when every earlier one has returned
CallLoadInTurn(r) ==
    /\ \A q \in Runs : q < r => pc[q] = "done"
    /\ CallLoad(r)

NextSeq ==
    \E r \in Runs :
        (CallLoadInTurn(r) \/ LoadStep(r)) /\ UNCHANGED <<runVars, envVars, driverVars>>

SpecSeq == InitSeq /\ [][NextSeq]_vars

\* ------------------------------------------------------------------ a moderated table
\* ModerationStatus of event.py
ModerationStatus == {"pending", "approved", "rejected"}

\* tables whose rows were deactivated or moderated after they were stored
ModeratedStores ==
    {{[row EXCEPT !.is_active = a, !.moderation_status = m] : row \in rows} :
        rows \in PreStores, a \in BOOLEAN, m \in ModerationStatus}

InitModerated ==
    /\ store \in ModeratedStores
    /\ nextId = Cardinality(store) + 1
    /\ InitSlots
    /\ InitDriver
    /\ InitEnv

\* one execution of load() on such a table
NextModerated ==
    \/ CallLoad(1) /\ UNCHANGED <<runVars, envVars, driverVars>>
    \/ LoadStep(1) /\ UNCHANGED <<runVars, envVars, driverVars>>

SpecModerated == InitModerated /\ [][NextModerated]_vars

\* ------------------------------------------------------------------ a killed load, retried
\* the process is killed inside the loop of load(): before the select of an
\* event, or between its select and its write
KillLoad(r) ==
    /\ pc[r] \in {"select", "write"}
    /\ pc' = [pc EXCEPT ![r] = "killed"]
    /\ UNCHANGED <<store, nextId, dry_run, supabase, events, idx, existing,
                   new_count, updated_count, failed_count, startStore, db_errors, db_writes>>

\* a load that writes, on a list that has something to write
FirstLoad ==
    /\ pc[1] = "idle"
    /\ \E evs \in EventLists \ {<<>>} : EnterLoad(1, evs, FALSE, "client")

\* the next occurrence loads the same list in full
RetryLoad ==
    /\ pc[1] = "killed"
    /\ pc[2] = "idle"
    /\ EnterLoad(2, events[1], FALSE, "client")

NextRetry ==
    \/ FirstLoad /\ UNCHANGED <<runVars, envVars, driverVars>>
    \/ LoadStep(1) /\ UNCHANGED <<runVars, envVars, driverVars>>
    \/ KillLoad(1) /\ UNCHANGED <<runVars, envVars, driverVars>>
    \/ RetryLoad /\ UNCHANGED <<runVars, envVars, driverVars>>
    \/ LoadStep(2) /\ UNCHANGED <<runVars, envVars, driverVars>>

SpecRetry == InitSeq /\ [][NextRetry]_vars

\* ------------------------------------------------------------------ cli.py, one scraper
\* steps of run_scraper(): async with scraper_class(...) as scraper: scraper.run()
ScraperStep(r) ==
    \/ Construct(r)
    \/ Aenter(r)
    \/ FetchFeed(r)
    \/ FetchPage(r)
    \/ TransformStep(r)
    \/ RunLoad(r)
    \/ RunLoadStep(r)
    \/ RunReturns(r)
    \/ Aexit(r)

schedVars == <<task_state, task_source, executions, redelivered, occurrence>>

\* main(): args.scraper names one scraper
CliRunOne ==
    /\ driver_pc = "start"
    /\ cli_arg \in Sources
    /\ StartScraper(1, cli_arg, "cli", cli_dry)
    /\ driver_pc' = "one"
    /\ UNCHANGED <<cli_arg, cli_dry, b_idx, results, exit_code, started, outcomes>>
    /\ UNCHANGED <<envVars, schedVars>>

\* faulty variant of ExitCode: only the last result is looked at
ExitCode_lastOnly(rs) ==
    IF rs # <<>> /\ rs[Len(rs)].error_message # None THEN 1 ELSE 0

\* any(r.error_message is not None for r in results) -> sys.exit(1)
ExitCode(rs) ==
    IF \E k \in 1..Len(rs) : rs[k].error_message # None THEN 1 ELSE 0

\* run_scraper returned: results = [result], print_summary, exit status
CliOneReturns ==
    /\ driver_pc = "one"
    /\ rpc[1] = "returned"
    /\ results' = <<result[1]>>
    /\ exit_code' = ExitCode(<<result[1]>>)
    /\ driver_pc' = "exit"
    /\ outcomes' = <<fetch_error[1]>>
    /\ UNCHANGED <<cli_arg, cli_dry, b_idx, started>>
    /\ UNCHANGED <<loadVars, runVars, envVars, schedVars>>

\* run_scraper raised: main() catches nothing, the interpreter exits with 1
CliOneRaises ==
    /\ driver_pc = "one"
    /\ rpc[1] = "raised"
    /\ exit_code' = 1
    /\ driver_pc' = "exit"
    /\ outcomes' = <<raised[1]>>
    /\ UNCHANGED <<cli_arg, cli_dry, b_idx, results, started>>
    /\ UNCHANGED <<loadVars, runVars, envVars, schedVars>>

InitRun ==
    /\ cli_arg \in Sources
    /\ store \in {rows \in PreStores : \A row \in rows : row.source = cli_arg}
    /\ nextId = Cardinality(store) + 1
    /\ InitSlots
    /\ ticketmaster_api_key \in {None, "key"}
    /\ event_sources = [s \in {} |-> None]
    /\ tracking = [s \in Sources |-> [last |-> None, ever |-> FALSE]]
    /\ feed_left = MaxFeed
    /\ served = <<>>
    /\ cli_dry \in BOOLEAN
    /\ driver_pc = "start"
    /\ b_idx = 1
    /\ results = <<>>
    /\ exit_code = None
    /\ started = <<>>
    /\ outcomes = <<>>
    /\ task_state = None
    /\ task_source = SCRAPERS[1]
    /\ executions = 0
    /\ redelivered = 0
    /\ occurrence = 0

NextRun ==
    \/ CliRunOne
    \/ ScraperStep(1) /\ UNCHANGED driverVars
    \/ CliOneReturns
    \/ CliOneRaises

SpecRun == InitRun /\ [][NextRun]_vars

\* ------------------------------------------------------------------ transform() alone
\* scraper.transform(raw) called on one provider item of any shape, as the
\* loop of run() calls it
InitTransform ==
    /\ store = {}
    /\ nextId = 1
    /\ pc = [r \in Runs |-> "idle"]
    /\ dry_run = [r \in Runs |-> FALSE]
    /\ supabase = [r \in Runs |-> None]
    /\ events = [r \in Runs |-> <<>>]
    /\ idx = [r \in Runs |-> 1]
    /\ existing = [r \in Runs |-> {}]
    /\ new_count = [r \in Runs |-> 0]
    /\ updated_count = [r \in Runs |-> 0]
    /\ failed_count = [r \in Runs |-> 0]
    /\ startStore = [r \in Runs |-> {}]
    /\ db_errors = [r \in Runs |-> 0]
    /\ db_writes = [r \in Runs |-> 0]
    /\ \E s \in Sources, raw \in AllRawItems :
          /\ adapter = [r \in Runs |-> IF r = 1 THEN s ELSE SCRAPERS[1]]
          /\ raw_events = [r \in Runs |-> IF r = 1 THEN <<raw>> ELSE <<>>]
    /\ rpc = [r \in Runs |-> IF r = 1 THEN "transform" ELSE "idle"]
    /\ via = [r \in Runs |-> "cli"]
    /\ client = [r \in Runs |-> IF r = 1 THEN "client" ELSE None]
    /\ page = [r \in Runs |-> 0]
    /\ t_idx = [r \in Runs |-> 1]
    /\ transformed = [r \in Runs |-> <<>>]
    /\ transform_failed = [r \in Runs |-> 0]
    /\ result = [r \in Runs |-> None]
    /\ raised = [r \in Runs |-> None]
    /\ fetch_error = [r \in Runs |-> None]
    /\ transform_calls = [r \in Runs |-> 0]
    /\ load_calls = [r \in Runs |-> 0]
    /\ InitDriver
    /\ InitEnv

NextTransform == TransformStep(1) /\ UNCHANGED driverVars

SpecTransform == InitTransform /\ [][NextTransform]_vars

\* ------------------------------------------------------------------ a long Ticketmaster feed
PageBudget == 6     \* items the provider holds, one to a page

\* complete items of a Manhattan venue, told apart by their id
PagedItems ==
    {raw \in RawItems :
        /\ raw.title = "text" /\ raw.start = "ok" /\ raw.region = "allowed"
        /\ raw.end = "absent" /\ raw.id # 0}

\* the events of one response: none, or one item
OnePages == {<<>>} \cup {<<raw>> : raw \in PagedItems}

InitPages ==
    /\ cli_arg = "ticketmaster"
    /\ store = {}
    /\ nextId = 1
    /\ InitSlots
    /\ ticketmaster_api_key = "key"
    /\ event_sources = [s \in {} |-> None]
    /\ tracking = [s \in Sources |-> [last |-> None, ever |-> FALSE]]
    /\ feed_left = PageBudget
    /\ served = <<>>
    /\ cli_dry \in BOOLEAN
    /\ driver_pc = "start"
    /\ b_idx = 1
    /\ results = <<>>
    /\ exit_code = None
    /\ started = <<>>
    /\ outcomes = <<>>
    /\ task_state = None
    /\ task_source = SCRAPERS[1]
    /\ executions = 0
    /\ redelivered = 0
    /\ occurrence = 0

NextPages ==
    \/ CliRunOne
    \/ Construct(1) /\ UNCHANGED driverVars
    \/ Aenter(1) /\ UNCHANGED driverVars
    \/ FetchPageFrom(1, OnePages) /\ UNCHANGED driverVars
    \/ TransformStep(1) /\ UNCHANGED driverVars
    \/ RunLoad(1) /\ UNCHANGED driverVars
    \/ RunLoadStep(1) /\ UNCHANGED driverVars
    \/ RunReturns(1) /\ UNCHANGED driverVars
    \/ Aexit(1) /\ UNCHANGED driverVars
    \/ CliOneReturns
    \/ CliOneRaises

SpecPages == InitPages /\ [][NextPages]_vars

\* ------------------------------------------------------------------ a NYC Parks feed around the window
\* complete items of an allowed borough, told apart by start date and time
WindowItems ==
    {raw \in AllRawItems :
        /\ raw.title = "text" /\ raw.start = "ok" /\ raw.region = "allowed"
        /\ raw.end = "absent" /\ raw.price = NoPriceRange
        /\ raw.id = 1 /\ raw.body = 1}

InitWindow ==
    /\ cli_arg = "nyc_parks"
    /\ store = {}
    /\ nextId = 1
    /\ InitSlots
    /\ ticketmaster_api_key = "key"
    /\ event_sources = [s \in {} |-> None]
    /\ tracking = [s \in Sources |-> [last |-> None, ever |-> FALSE]]
    /\ feed_left = MaxFeed
    /\ served = <<>>
    /\ cli_dry \in BOOLEAN
    /\ driver_pc = "start"
    /\ b_idx = 1
    /\ results = <<>>
    /\ exit_code = None
    /\ started = <<>>
    /\ outcomes = <<>>
    /\ task_state = None
    /\ task_source = SCRAPERS[1]
    /\ executions = 0
    /\ redelivered = 0
    /\ occurrence = 0

NextWindow ==
    \/ CliRunOne
    \/ Construct(1) /\ UNCHANGED driverVars
    \/ Aenter(1) /\ UNCHANGED driverVars
    \/ FetchFeedFrom(1, SeqsUpTo(WindowItems, MaxFeed)) /\ UNCHANGED driverVars
    \/ TransformStep(1) /\ UNCHANGED driverVars
    \/ RunLoad(1) /\ UNCHANGED driverVars
    \/ RunLoadStep(1) /\ UNCHANGED driverVars
    \/ RunReturns(1) /\ UNCHANGED driverVars
    \/ Aexit(1) /\ UNCHANGED driverVars
    \/ CliOneReturns
    \/ CliOneRaises

SpecWindow == InitWindow /\ [][NextWindow]_vars

\* ------------------------------------------------------------------ all sources
\* the slot is free again for the next scraper of the batch
ReleaseSlot == rpc' = [rpc EXCEPT ![1] = "idle"]

\* what a batch leaves alone when it collects one result
CollectFrame ==
    /\ UNCHANGED <<cli_arg, cli_dry, driver_pc, exit_code, started>>
    /\ UNCHANGED <<loadVars, envVars, schedVars>>
    /\ UNCHANGED <<adapter, via, client, page, raw_events, t_idx, transformed,
                   transform_failed, result, raised, fetch_error, transform_calls,
                   load_calls>>

\* run_all: the next name of SCRAPERS, run_scraper(name, dry_run, verbose)
RunAllNext ==
    /\ driver_pc = "run_all"
    /\ b_idx <= Len(SCRAPERS)
    /\ rpc[1] = "idle"
    /\ StartScraper(1, SCRAPERS[b_idx], "cli", cli_dry)
    /\ started' = Append(started, SCRAPERS[b_idx])
    /\ UNCHANGED <<cli_arg, cli_dry, driver_pc, b_idx, results, exit_code, outcomes>>
    /\ UNCHANGED <<envVars, schedVars>>

\* run_all: results.append(result)
RunAllCollect ==
    /\ driver_pc = "run_all"
    /\ rpc[1] = "returned"
    /\ results' = Append(results, result[1])
    /\ outcomes' = Append(outcomes, fetch_error[1])
    /\ b_idx' = b_idx + 1
    /\ ReleaseSlot
    /\ CollectFrame

\* faulty variant of RunAllCatch: the exception ends the batch
RunAllCatch_aborts ==
    /\ driver_pc = "run_all"
    /\ rpc[1] = "raised"
    /\ b_idx' = Len(SCRAPERS) + 1
    /\ ReleaseSlot
    /\ CollectFrame
    /\ UNCHANGED <<results, outcomes>>

\* run_all: except Exception -> the failure result built from str(e)
RunAllCatch ==
    /\ driver_pc = "run_all"
    /\ rpc[1] = "raised"
    /\ results' = Append(results, ScraperResult(SCRAPERS[b_idx], 0, 0, 0, 0, raised[1]))
    /\ outcomes' = Append(outcomes, raised[1])
    /\ b_idx' = b_idx + 1
    /\ ReleaseSlot
    /\ CollectFrame

\* main(): run_all returned: print_summary, exit status
RunAllReturns ==
    /\ driver_pc = "run_all"
    /\ b_idx > Len(SCRAPERS)
    /\ exit_code' = ExitCode(results)
    /\ driver_pc' = "exit"
    /\ UNCHANGED <<cli_arg, cli_dry, b_idx, results, started, outcomes>>
    /\ UNCHANGED <<loadVars, runVars, envVars, schedVars>>

\* the dictionary a scrape task returns
TaskResult(res) ==
    [source |-> res.source, events_found |-> res.events_found,
     events_new |-> res.events_new, events_updated |-> res.events_updated,
     events_failed |-> res.events_failed, error |-> res.error_message]

GetFailed == "get failed"

\* steps of a scrape task: async with Scraper() as scraper: run, _log_scraper_run
TaskStep(r) ==
    \/ ScraperStep(r)
    \/ LogScraperRun(r)

\* scrape_all: scrape_<source>.delay() of the next block
ScrapeAllNext ==
    /\ driver_pc = "scrape_all"
    /\ b_idx <= Len(SCRAPERS)
    /\ rpc[1] = "idle"
    /\ StartScraper(1, SCRAPERS[b_idx], "task", FALSE)
    /\ started' = Append(started, SCRAPERS[b_idx])
    /\ UNCHANGED <<cli_arg, cli_dry, driver_pc, b_idx, results, exit_code, outcomes>>
    /\ UNCHANGED <<envVars, schedVars>>

\* scrape_all: .get() returned the task's dictionary: results.append(...)
ScrapeAllCollect ==
    /\ driver_pc = "scrape_all"
    /\ rpc[1] = "returned"
    /\ results' = Append(results, TaskResult(result[1]))
    /\ outcomes' = Append(outcomes, fetch_error[1])
    /\ b_idx' = b_idx + 1
    /\ ReleaseSlot
    /\ CollectFrame

\* scrape_all: except Exception: the task raised, or .get() itself did
ScrapeAllCatch ==
    /\ driver_pc = "scrape_all"
    /\ rpc[1] \in {"raised", "returned"}
    /\ LET e == IF rpc[1] = "raised" THEN raised[1] ELSE GetFailed
       IN /\ results' = Append(results, [source |-> SCRAPERS[b_idx], error |-> e])
          /\ outcomes' = Append(outcomes, e)
    /\ b_idx' = b_idx + 1
    /\ ReleaseSlot
    /\ CollectFrame

\* scrape_all: the summary is returned
ScrapeAllReturns ==
    /\ driver_pc = "scrape_all"
    /\ b_idx > Len(SCRAPERS)
    /\ driver_pc' = "exit"
    /\ UNCHANGED <<cli_arg, cli_dry, b_idx, results, exit_code, started, outcomes>>
    /\ UNCHANGED <<loadVars, runVars, envVars, schedVars>>

InitBatch ==
    /\ store = {}
    /\ nextId = 1
    /\ InitSlots
    /\ ticketmaster_api_key \in {None, "key"}
    /\ event_sources = [s \in {} |-> None]
    /\ tracking = [s \in Sources |-> [last |-> None, ever |-> FALSE]]
    /\ feed_left = MaxSharedFeed
    /\ served = <<>>
    /\ cli_arg = "all"
    /\ cli_dry \in BOOLEAN
    /\ driver_pc \in {"run_all", "scrape_all"}
    /\ driver_pc = "scrape_all" => cli_dry = FALSE
    /\ b_idx = 1
    /\ results = <<>>
    /\ exit_code = None
    /\ started = <<>>
    /\ outcomes = <<>>
    /\ task_state = None
    /\ task_source = SCRAPERS[1]
    /\ executions = 0
    /\ redelivered = 0
    /\ occurrence = 0

NextBatch ==
    \/ RunAllNext
    \/ RunAllCollect
    \/ RunAllCatch
    \/ RunAllReturns
    \/ ScrapeAllNext
    \/ ScrapeAllCollect
    \/ ScrapeAllCatch
    \/ ScrapeAllReturns
    \/ TaskStep(1) /\ UNCHANGED driverVars

SpecBatch == InitBatch /\ [][NextBatch]_vars

\* ------------------------------------------------------------------ cli.py, main()
\* main(): args.scraper == "all": run_all(args.dry_run, args.verbose)
CliRunAll ==
    /\ driver_pc = "start"
    /\ cli_arg = "all"
    /\ driver_pc' = "run_all"
    /\ UNCHANGED <<cli_arg, cli_dry, b_idx, results, exit_code, started, outcomes>>
    /\ UNCHANGED <<loadVars, runVars, envVars, schedVars>>

InitCli ==
    /\ store = {}
    /\ nextId = 1
    /\ InitSlots
    /\ ticketmaster_api_key \in {None, "key"}
    /\ event_sources = [s \in {} |-> None]
    /\ tracking = [s \in Sources |-> [last |-> None, ever |-> FALSE]]
    /\ feed_left = MaxSharedFeed
    /\ served = <<>>
    /\ cli_arg \in Sources \cup {"all"}
    /\ cli_dry \in BOOLEAN
    /\ driver_pc = "start"
    /\ b_idx = 1
    /\ results = <<>>
    /\ exit_code = None
    /\ started = <<>>
    /\ outcomes = <<>>
    /\ task_state = None
    /\ task_source = SCRAPERS[1]
    /\ executions = 0
    /\ redelivered = 0
    /\ occurrence = 0

NextCli ==
    \/ CliRunOne
    \/ CliRunAll
    \/ ScraperStep(1) /\ UNCHANGED driverVars
    \/ CliOneReturns
    \/ CliOneRaises
    \/ RunAllNext
    \/ RunAllCollect
    \/ RunAllCatch
    \/ RunAllReturns

SpecCli == InitCli /\ [][NextCli]_vars

\* ------------------------------------------------------------------ beat schedule and workers
MaxOccurrences == 2     \* occurrences the beat schedule fires in one behaviour
MaxLost == 1            \* workers lost while running the task of one occurrence

\* celery_app.conf: task_max_retries
task_max_retries == 3

TaskFinished == task_state \in {"SUCCESS", "FAILURE"}

\* beat_schedule: the crontab entry of one source comes due
BeatFires ==
    /\ driver_pc = "beat"
    /\ task_state = None \/ TaskFinished
    /\ occurrence < MaxOccurrences
    /\ \E s \in Sources : task_source' = s
    /\ task_state' = "PENDING"
    /\ executions' = 0
    /\ redelivered' = 0
    /\ occurrence' = occurrence + 1
    /\ UNCHANGED <<cli_arg, cli_dry, driver_pc, b_idx, results, exit_code, started, outcomes>>
    /\ UNCHANGED <<loadVars, runVars, envVars>>

\* a worker takes the message and enters the task body: scrape_<source>
WorkerStarts ==
    /\ driver_pc = "beat"
    /\ task_state = "PENDING"
    /\ StartScraper(1, task_source, "task", FALSE)
    /\ task_state' = "STARTED"
    /\ executions' = executions + 1
    /\ UNCHANGED <<cli_arg, cli_dry, driver_pc, b_idx, results, exit_code, started, outcomes>>
    /\ UNCHANGED <<task_source, redelivered, occurrence>>
    /\ UNCHANGED envVars

\* the task body returned its dictionary: nothing in it asks for a retry
\* (no self.retry, no autoretry_for), whatever "error" holds
TaskReturns ==
    /\ driver_pc = "beat"
    /\ task_state = "STARTED"
    /\ rpc[1] = "returned"
    /\ task_state' = "SUCCESS"
    /\ results' = <<TaskResult(result[1])>>
    /\ UNCHANGED <<cli_arg, cli_dry, driver_pc, b_idx, exit_code, started, outcomes>>
    /\ UNCHANGED <<task_source, executions, redelivered, occurrence>>
    /\ UNCHANGED <<loadVars, runVars, envVars>>

\* the task body raised (Scraper() or __aenter__): the task fails
TaskRaises ==
    /\ driver_pc = "beat"
    /\ task_state = "STARTED"
    /\ rpc[1] = "raised"
    /\ task_state' = "FAILURE"
    /\ UNCHANGED <<cli_arg, cli_dry, driver_pc, b_idx, results, exit_code, started, outcomes>>
    /\ UNCHANGED <<task_source, executions, redelivered, occurrence>>
    /\ UNCHANGED <<loadVars, runVars, envVars>>

\* task_acks_late: the worker dies before the task ends, the unacknowledged
\* message is delivered again
WorkerLost ==
    /\ driver_pc = "beat"
    /\ task_state = "STARTED"
    /\ rpc[1] \notin {"returned", "raised"}
    /\ redelivered < MaxLost
    /\ task_state' = "PENDING"
    /\ redelivered' = redelivered + 1
    /\ UNCHANGED <<cli_arg, cli_dry, driver_pc, b_idx, results, exit_code, started, outcomes>>
    /\ UNCHANGED <<task_source, executions, occurrence>>
    /\ UNCHANGED <<loadVars, runVars, envVars>>

InitSched ==
    /\ store = {}
    /\ nextId = 1
    /\ InitSlots
    /\ ticketmaster_api_key \in {None, "key"}
    /\ event_sources = [s \in {} |-> None]
    /\ tracking = [s \in Sources |-> [last |-> None, ever |-> FALSE]]
    /\ feed_left = MaxSharedFeed
    /\ served = <<>>
    /\ cli_arg = "all"
    /\ cli_dry = FALSE
    /\ driver_pc = "beat"
    /\ b_idx = 1
    /\ results = <<>>
    /\ exit_code = None
    /\ started = <<>>
    /\ outcomes = <<>>
    /\ task_state = None
    /\ task_source = SCRAPERS[1]
    /\ executions = 0
    /\ redelivered = 0
    /\ occurrence = 0

NextSched ==
    \/ BeatFires
    \/ WorkerStarts
    \/ TaskStep(1) /\ UNCHANGED driverVars
    \/ TaskReturns
    \/ TaskRaises
    \/ WorkerLost

SpecSched == InitSched /\ [][NextSched]_vars

\* ------------------------------------------------------------------ properties
Key(ev) == <<ev.source, ev.external_id>>

DistinctKeys(evs) ==
    \A a, b \in 1..Len(evs) : Key(evs[a]) = Key(evs[b]) => a = b

KeysOf(evs) == {Key(evs[k]) : k \in 1..Len(evs)}

RowsFor(rows, evs) == {row \in rows : Key(row) \in KeysOf(evs)}

\* a load that wrote for real: a client was there and no call on it raised
CleanLoad(r) ==
    pc[r] = "done" /\ ~dry_run[r] /\ supabase[r] # None /\ db_errors[r] = 0

\* C1: no two rows of the events table share (source, external_id), whatever
\* executions of load() overlap.
C1_UniqueKey ==
    \A a, b \in store : Key(a) = Key(b) => a.id = b.id

\* C2: loading N events with pairwise distinct keys, none stored, twice and
\* without persistence errors gives (N, 0, 0), then (0, N, 0), and N rows.
C2_Idempotent ==
    \A r \in Runs :
        (/\ r + 1 \in Runs
         /\ CleanLoad(r) /\ CleanLoad(r + 1)
         /\ events[r + 1] = events[r]
         /\ DistinctKeys(events[r])
         /\ RowsFor(startStore[r], events[r]) = {})
        => /\ new_count[r] = Len(events[r])
           /\ updated_count[r] = 0
           /\ failed_count[r] = 0
           /\ new_count[r + 1] = 0
           /\ updated_count[r + 1] = Len(events[r])
           /\ failed_count[r + 1] = 0
           /\ Cardinality(RowsFor(store, events[r])) = Len(events[r])

C2_Witness ==
    /\ CleanLoad(1) /\ CleanLoad(2)
    /\ events[2] = events[1]
    /\ Len(events[1]) = 2
    /\ DistinctKeys(events[1])
    /\ RowsFor(startStore[1], events[1]) = {}
    /\ startStore[1] # {}

\* C8: load() accounts for every input event exactly once: at every point of
\* the loop the three counters add up to the events already passed, and on
\* return to the length of the list, persistence errors included.
C8_CountsAddUp ==
    \A r \in Runs :
        /\ pc[r] \in {"select", "write"}
              => new_count[r] + updated_count[r] + failed_count[r] = idx[r] - 1
        /\ pc[r] = "done"
              => new_count[r] + updated_count[r] + failed_count[r] = Len(events[r])

C8_Witness ==
    \E r \in Runs :
        /\ pc[r] = "done"
        /\ Len(events[r]) = 2
        /\ db_errors[r] = 1
        /\ failed_count[r] = 1
        /\ new_count[r] + updated_count[r] = 1
        /\ idx[r] = 3

\* a dry-run load followed by a real load of the same list on the same table
DryThenReal(r) ==
    /\ r + 1 \in Runs
    /\ pc[r] = "done" /\ pc[r + 1] = "done"
    /\ dry_run[r] /\ ~dry_run[r + 1]
    /\ events[r + 1] = events[r]
    /\ startStore[r + 1] = startStore[r]
    /\ supabase[r + 1] = supabase[r]
    /\ db_errors[r] = 0 /\ db_errors[r + 1] = 0

ErrorOf(entry) ==
    IF "error_message" \in DOMAIN entry THEN entry.error_message ELSE entry.error

\* C3: when an "all sources" batch (run_all or scrape_all) ends, it has started
\* every registered scraper in registry order and holds one entry per scraper,
\* in that order, each carrying the error its scraper ended with (if any),
\* whatever the scrapers before it did.
C3_BatchResilience ==
    driver_pc = "exit"
    => /\ started = SCRAPERS
       /\ Len(results) = Len(SCRAPERS)
       /\ Len(outcomes) = Len(SCRAPERS)
       /\ \A k \in 1..Len(SCRAPERS) :
            /\ results[k].source = SCRAPERS[k]
            /\ ErrorOf(results[k]) = outcomes[k]

C3_Witness ==
    /\ driver_pc = "exit"
    /\ Len(results) = 3
    /\ outcomes[1] = None /\ outcomes[3] = None
    /\ outcomes[2] \in TransportErrors
    /\ ErrorOf(results[2]) \in TransportErrors
    /\ results[1].events_new = 1
    /\ results[3].events_found = 0

\* ------------------------------------------------------------------ schedule
\* C4 as stated: an occurrence whose run ended with a transport error from
\* fetch has been executed task_max_retries more times after the first and
\* has ended in FAILURE.
C4_RetriedUntilExhausted ==
    (TaskFinished /\ fetch_error[1] \in TransportErrors)
    => /\ executions - redelivered = task_max_retries + 1
       /\ task_state = "FAILURE"

\* ------------------------------------------------------------------ run()
\* C5: once fetch() has failed (on the first request or on a later page),
\* run() has called neither transform nor load, has written nothing, and its
\* result holds four zero counts and the message of the failure.
C5_FetchFailureIsFatal ==
    \A r \in Runs :
        fetch_error[r] # None
        => /\ rpc[r] \in {"built", "logged", "returned"}
           /\ transform_calls[r] = 0
           /\ load_calls[r] = 0
           /\ db_writes[r] = 0
           /\ store = startStore[r]
           /\ result[r] = ScraperResult(adapter[r], 0, 0, 0, 0, fetch_error[r])

C5_Witness ==
    /\ adapter[1] = "ticketmaster"
    /\ fetch_error[1] \in TransportErrors
    /\ page[1] >= 1
    /\ Len(raw_events[1]) >= 1
    /\ rpc[1] = "returned"
    /\ driver_pc = "exit"
    /\ exit_code = 1

\* the events transform() produces for a list of raw items, in order
RECURSIVE ProducedBy(_, _)
ProducedBy(s, items) ==
    IF items = <<>> THEN <<>>
    ELSE LET out == Transform(s, Head(items))
         IN (IF out.kind = "event" THEN <<out.ev>> ELSE <<>>) \o ProducedBy(s, Tail(items))

RaisingIn(s, items) == {k \in 1..Len(items) : Transform(s, items[k]).kind = "raise"}

\* C6: when run() reaches load(), transform() has been called on every raw
\* item, the failed count is the number of items on which it raised (skips not
\* included), and load() received every event it produced, in order; the
\* result adds the load failures to that count.
C6_TransformFailuresCounted ==
    \A r \in Runs :
        (rpc[r] \in {"load", "built", "logged", "returned"} /\ fetch_error[r] = None)
        => /\ transform_calls[r] = Len(raw_events[r])
           /\ transform_failed[r] = Cardinality(RaisingIn(adapter[r], raw_events[r]))
           /\ load_calls[r] = 1
           /\ events[r] = ProducedBy(adapter[r], raw_events[r])
           /\ rpc[r] # "load"
                => result[r].events_failed = transform_failed[r] + failed_count[r]

C6_Witness ==
    /\ rpc[1] = "returned"
    /\ fetch_error[1] = None
    /\ Len(raw_events[1]) = 2
    /\ Transform(adapter[1], raw_events[1][1]).kind = "raise"
    /\ Transform(adapter[1], raw_events[1][2]).kind = "event"
    /\ Len(events[1]) = 1
    /\ result[1].events_failed = 1
    /\ result[1].events_new = 1

\* a raw item without a title (key absent, empty or null) or without a start
\* time that parses
LacksRequired(raw) == raw.title \in {"absent", "null"} \/ raw.start # "ok"

\* C7 as stated: transform() returns skip on every raw item that lacks a title
\* or a parseable start, for every scraper; a run whose items all lack one
\* ends with them found, none new, updated or failed, and no error message.
C7_MissingFieldSkips ==
    \A r \in Runs :
        /\ \A k \in 1..Len(raw_events[r]) :
             (k < t_idx[r] /\ LacksRequired(raw_events[r][k]))
             => Transform(adapter[r], raw_events[r][k]) = Skip
        /\ (/\ rpc[r] = "returned"
            /\ fetch_error[r] = None
            /\ \A k \in 1..Len(raw_events[r]) : LacksRequired(raw_events[r][k]))
           => result[r] = ScraperResult(adapter[r], Len(raw_events[r]), 0, 0, 0, None)

\* C9: an execution with dry_run set issues no insert and no update, and the
\* events table stays what it was when the run started, up to its return.
C9_DryRunWritesNothing ==
    \A r \in Runs :
        (dry_run[r] /\ rpc[r] # "idle")
        => /\ db_writes[r] = 0
           /\ store = startStore[r]

C9_Witness ==
    /\ dry_run[1]
    /\ rpc[1] = "returned"
    /\ supabase[1] # None
    /\ Len(events[1]) = 2
    /\ new_count[1] = 1 /\ updated_count[1] = 1
    /\ store # {}
    /\ driver_pc = "exit"
    /\ exit_code = 0

\* ------------------------------------------------------------------ fetch filters
\* run() has the list fetch() returned
Fetched(r) ==
    /\ rpc[r] \in {"transform", "load", "built", "logged", "returned"}
    /\ fetch_error[r] = None

\* C11 as stated: for NYC Parks and NYC Open Data the list fetch() returned
\* (the items transform() is called on and events_found counts) holds no item
\* of a borough outside the allow-list.
C11_OutsideRegionNotFetched ==
    \A r \in Runs :
        (Fetched(r) /\ adapter[r] \in {"nyc_parks", "nyc_open_data"})
        => \A k \in 1..Len(raw_events[r]) : raw_events[r][k].region # "outside"

PastLog(r) == via[r] = "task" /\ rpc[r] \in {"logged", "returned"}

\* the tracking record of the source holds the run that execution r made
HoldsRun(r) ==
    /\ adapter[r] \in DOMAIN event_sources
    /\ LET rec == event_sources[adapter[r]]
       IN /\ rec.last_sync_status = (IF fetch_error[r] = None THEN "success" ELSE "failed")
          /\ rec.events_found = result[r].events_found
          /\ rec.events_new = result[r].events_new
          /\ rec.events_updated = result[r].events_updated
          /\ rec.error_message = fetch_error[r]

RunReturned(r) ==
    /\ rpc[r] \notin {"fetch", "transform", "load"}
    /\ fetch_error[r] # None \/ load_calls[r] = 1

\* C14: once run() has returned its result inside a scheduled task, the task
\* returns the dictionary made of that result (source, counts, error) whether
\* the tracking write succeeds or fails, and the events table keeps what the
\* load wrote.
C14_TrackingFailureHarmless ==
    /\ \A r \in Runs :
         (via[r] = "task" /\ RunReturned(r))
         => /\ rpc[r] \in {"built", "logged", "returned"}
            /\ Cardinality(store) = Cardinality(startStore[r]) + new_count[r]
    /\ task_state = "FAILURE" => ~RunReturned(1)
    /\ task_state = "SUCCESS"
         => results = <<[source |-> task_source,
                         events_found |-> IF fetch_error[1] = None
                                             THEN Len(raw_events[1]) ELSE 0,
                         events_new |-> new_count[1],
                         events_updated |-> updated_count[1],
                         events_failed |-> IF fetch_error[1] = None
                                              THEN transform_failed[1] + failed_count[1]
                                              ELSE 0,
                         error |-> fetch_error[1]]>>

C14_Witness ==
    /\ task_state = "SUCCESS"
    /\ rpc[1] = "returned"
    /\ tracking[task_source].last = "failed"
    /\ task_source \notin DOMAIN event_sources
    /\ results[1].events_new = 1
    /\ results[1].error = None
    /\ store # {}

\* C15: whenever a run_scraper() call or a scheduled scrape task has returned
\* or raised, and until the next one starts, the scraper's HTTP client is
\* closed and unset.
C15_ClientReleased ==
    \A r \in Runs : rpc[r] \in {"idle", "returned", "raised"} => client[r] = None

C15_Witness ==
    /\ rpc[1] = "returned"
    /\ via[1] = "task"
    /\ adapter[1] = "nyc_open_data"
    /\ fetch_error[1] \in TransportErrors
    /\ tracking[adapter[1]].last = "failed"
    /\ client[1] = None

\* ------------------------------------------------------------------ what a load leaves
\* the content of rows: identity key and fields, without id and timestamps
Content(rows) ==
    {[source |-> row.source, external_id |-> row.external_id, payload |-> row.payload] :
        row \in rows}

\* the last event of a list that carries a key
LastWith(evs, key) ==
    LET at == CHOOSE k \in 1..Len(evs) :
                  /\ Key(evs[k]) = key
                  /\ \A j \in 1..Len(evs) : Key(evs[j]) = key => j <= k
    IN evs[at]

\* the content one uninterrupted load of evs, running alone, leaves of a table
LoadedAlone(rows, evs) ==
    {c \in Content(rows) : Key(c) \notin KeysOf(evs)}
        \cup {[source |-> key[1], external_id |-> key[2],
               payload |-> LastWith(evs, key).payload] : key \in KeysOf(evs)}

SourceOf(r) == events[r][1].source

\* no other execution that was handed events works on the source of r
OnlyRunOfItsSource(r) ==
    \A q \in Runs \ {r} :
        (pc[q] # "idle" /\ events[q] # <<>>) => SourceOf(q) # SourceOf(r)

\* C16: a load that shares its source with no other execution leaves, however
\* its lookups and writes interleave with the loads of other sources, the rows
\* and the (new, updated, failed) counts it leaves when it runs alone: one row
\* per key of its list, holding the last event with that key.
C16_SourcesIndependent ==
    \A r \in Runs :
        (CleanLoad(r) /\ events[r] # <<>> /\ OnlyRunOfItsSource(r))
        => LET mine == {row \in store : row.source = SourceOf(r)}
               before == {row \in startStore[r] : row.source = SourceOf(r)}
           IN /\ Content(mine) = LoadedAlone(before, events[r])
              /\ Cardinality(mine) = Cardinality(LoadedAlone(before, events[r]))
              /\ new_count[r] = Cardinality(KeysOf(events[r]) \ {Key(row) : row \in before})
              /\ updated_count[r] = Len(events[r]) - new_count[r]
              /\ failed_count[r] = 0

C16_Witness ==
    /\ CleanLoad(1) /\ CleanLoad(2)
    /\ Len(events[1]) = 2 /\ Len(events[2]) = 2
    /\ SourceOf(1) # SourceOf(2)
    /\ events[1][1].external_id = events[2][1].external_id
    /\ \E a, b, c, d \in store :
          /\ a.id = 1 /\ b.id = 2 /\ c.id = 3 /\ d.id = 4
          /\ a.source = SourceOf(1) /\ b.source = SourceOf(2)
          /\ c.source = SourceOf(1) /\ d.source = SourceOf(2)

\* C17: when a load was killed after any prefix of its list (also between the
\* select and the write of an event) and the same list was then loaded in full
\* without persistence errors, the table holds what one uninterrupted load of
\* the list leaves of the table the first load started from, one row per key.
C17_KilledLoadRetried ==
    (pc[1] = "killed" /\ CleanLoad(2) /\ events[2] = events[1])
    => /\ Content(store) = LoadedAlone(startStore[1], events[1])
       /\ \A a, b \in store : Key(a) = Key(b) => a = b

C17_Witness ==
    /\ pc[1] = "killed"
    /\ Len(events[1]) = 2
    /\ idx[1] = 2
    /\ db_writes[1] = 1
    /\ existing[1] # {}
    /\ CleanLoad(2)
    /\ events[2] = events[1]
    /\ new_count[2] = 0 /\ updated_count[2] = 2

\* C18: an iteration of load() that found a record for the event's key and
\* completed without error replaces that one record by a record with the same
\* id, the same (source, external_id) and the same created timestamp, whose
\* other fields are the incoming event's and whose updated timestamp is later
\* than before; updated_count grows by one, new_count does not move, and no
\* record is added.
C18_UpdateFrame ==
    [][\A r \in Runs :
          (/\ pc[r] = "write"
           /\ existing[r] # {}
           /\ pc'[r] \in {"select", "done"}
           /\ db_errors'[r] = db_errors[r])
          => \E old \in store :
                /\ old.id \in existing[r]
                /\ \E new \in store' :
                      /\ store' = (store \ {old}) \cup {new}
                      /\ new.id = old.id
                      /\ new.source = old.source
                      /\ new.external_id = old.external_id
                      /\ new.created_at = old.created_at
                      /\ new.payload = CurrentEvent(r).payload
                      /\ new.updated_at > old.updated_at
                /\ Cardinality(store') = Cardinality(store)
                /\ nextId' = nextId
                /\ updated_count'[r] = updated_count[r] + 1
                /\ new_count'[r] = new_count[r]]_vars

C18_Witness ==
    \E r \in Runs :
       /\ pc[r] = "done"
       /\ updated_count[r] >= 1
       /\ \E row \in store : \E old \in startStore[r] :
             /\ old.id = row.id
             /\ old.payload # row.payload
             /\ old.created_at = row.created_at
             /\ row.updated_at > row.created_at

\* ------------------------------------------------------------------ end time
\* the raw item without its end fields
WithoutEnd(raw) == [raw EXCEPT !.end = "absent"]

\* C19: every event transform() returned, for every adapter, has an end time
\* that is null or after its start; on a raw item whose end is not after its
\* start transform() returns what it returns for the item without end: the
\* same event, with a null end time, when the item is otherwise complete.
C19_EndAfterStartOrNull ==
    \A r \in Runs : \A k \in 1..Len(raw_events[r]) :
        k < t_idx[r]
        => LET raw == raw_events[r][k]
               out == Transform(adapter[r], raw)
           IN /\ out.kind = "event" => out.end_time \in {"null", "after"}
              /\ raw.end = "not_after"
                   => /\ out = Transform(adapter[r], WithoutEnd(raw))
                      /\ out.kind = "event" => out.end_time = "null"

C19_Witness ==
    /\ rpc[1] = "returned"
    /\ adapter[1] = "nyc_parks"
    /\ fetch_error[1] = None
    /\ \E k \in 1..Len(raw_events[1]) :
          /\ raw_events[1][k].end = "not_after"
          /\ Transform("nyc_parks", raw_events[1][k]).kind = "event"
    /\ \E k \in 1..Len(raw_events[1]) :
          /\ raw_events[1][k].end = "after"
          /\ Transform("nyc_parks", raw_events[1][k]).end_time = "after"
    /\ result[1].events_failed = 0
    /\ Len(events[1]) = 2

\* C20 as stated: transform() returns skip on a raw item whose end is not
\* after its start.
C20_InvalidEndSkips ==
    \A r \in Runs : \A k \in 1..Len(raw_events[r]) :
        (k < t_idx[r] /\ raw_events[r][k].end = "not_after")
        => Transform(adapter[r], raw_events[r][k]) = Skip

\* C20, amended: an end that is not after the start makes no item a skip; an
\* item with a title and a start that parses is skipped only for what its
\* adapter skips an item without end for (Ticketmaster: no id), and NYC Parks
\* and NYC Open Data produce its event.
C20_InvalidEndNotSkipped ==
    \A r \in Runs : \A k \in 1..Len(raw_events[r]) :
        (k < t_idx[r] /\ raw_events[r][k].end = "not_after")
        => LET raw == raw_events[r][k]
               out == Transform(adapter[r], raw)
           IN /\ out = Skip => Transform(adapter[r], WithoutEnd(raw)) = Skip
              /\ (~LacksRequired(raw) /\ raw.title = "text" /\ raw.region = "allowed"
                  /\ adapter[r] # "ticketmaster")
                 => out.kind = "event"

C20_Witness ==
    /\ rpc[1] = "returned"
    /\ adapter[1] = "nyc_open_data"
    /\ fetch_error[1] = None
    /\ Len(raw_events[1]) = 1
    /\ raw_events[1][1].end = "not_after"
    /\ Transform("nyc_open_data", raw_events[1][1]).kind = "event"
    /\ result[1].events_found = 1
    /\ result[1].events_new = 1

\* ------------------------------------------------------------------ prices
\* the item transform() was called on, and what it returned
Called(r) == rpc[r] = "transform" /\ t_idx[r] = 2 /\ Len(raw_events[r]) = 1

Given(r) == raw_events[r][1]

Returned(r) == Transform(adapter[r], Given(r))

\* a Ticketmaster item that lacks nothing transform() skips an item for
CompleteItem(raw) ==
    raw.region # "outside" /\ raw.title \in {"blank", "text"} /\ raw.start = "ok" /\ raw.id # 0

\* C21 as stated: on a complete item whose maximum price is lower than its
\* minimum price transform() produces an event without maximum price, and
\* every event produced has price_min >= 0 and no price_max or
\* price_max >= price_min.
C21_InvertedPriceDropped ==
    \A r \in Runs :
        Called(r)
        => LET raw == Given(r)
               out == Returned(r)
           IN /\ (/\ adapter[r] = "ticketmaster"
                  /\ CompleteItem(raw)
                  /\ raw.price.max # NoMax
                  /\ raw.price.max < raw.price.min)
                 => out.kind = "event" /\ out.price_max = NoMax
              /\ out.kind = "event"
                 => /\ out.price_min >= 0
                    /\ out.price_max = NoMax \/ out.price_max >= out.price_min

\* ------------------------------------------------------------------ external id fallback
\* the raw item as it reads when the provider supplies an identifier
WithId(raw) == [raw EXCEPT !.id = 1]

\* C22 as stated: for every adapter, an item without provider identifier that
\* would produce an event with one still produces an event, under the
\* external id built from the digest of (title, start string, location name).
C22_DigestFallback ==
    \A r \in Runs :
        (/\ Called(r)
         /\ Given(r).id = 0
         /\ Transform(adapter[r], WithId(Given(r))).kind = "event")
        => /\ Returned(r).kind = "event"
           /\ Returned(r).ev.external_id = DigestId

\* ------------------------------------------------------------------ malformed input
\* C23 as stated: whatever fields of the raw item are missing, null or out of
\* the canonical model's range, transform() returns an event or skip and
\* never raises.
C23_TransformNeverRaises ==
    \A r \in Runs : Called(r) => Returned(r).kind \in {"event", "skip"}

\* ------------------------------------------------------------------ missing credential
\* C24: a Ticketmaster run without API key ends with the configuration
\* failure as its error message and every count zero; no response of the
\* provider, page or transport error, reached it, transform() and load() were
\* not called, the events table is as the run found it, and the task of the
\* occurrence is executed once (plus redeliveries after a lost worker): it
\* ends SUCCESS and nothing schedules a retry.
C24_MissingKeyAborts ==
    (/\ adapter[1] = "ticketmaster"
     /\ ticketmaster_api_key = None
     /\ rpc[1] \in {"built", "logged", "returned"})
    => /\ result[1] = ScraperResult("ticketmaster", 0, 0, 0, 0, NoKeyMessage)
       /\ fetch_error[1] = NoKeyMessage
       /\ page[1] = 0
       /\ raw_events[1] = <<>>
       /\ transform_calls[1] = 0
       /\ load_calls[1] = 0
       /\ \A row \in store : row.source # "ticketmaster"
       /\ task_state # "FAILURE"
       /\ task_state = "SUCCESS" => executions = 1 + redelivered

C24_Witness ==
    /\ rpc[1] = "returned"
    /\ adapter[1] = "ticketmaster"
    /\ ticketmaster_api_key = None
    /\ task_state = "SUCCESS"
    /\ executions = 1
    /\ results[1].error = NoKeyMessage
    /\ store # {}

InLookAhead(raw) == now <= start_instant(raw) /\ start_instant(raw) <= cutoff

\* C26 as stated: the list the NYC Parks fetch() returns holds, in order,
\* exactly the items of the response whose start instant (start date with
\* start time) lies between now and now + 30 days.
C26_WindowExact ==
    (Fetched(1) /\ adapter[1] = "nyc_parks")
    => LET Starts(raw) == raw.start = "ok" /\ InLookAhead(raw)
       IN raw_events[1] = SelectSeq(served, Starts)

\* ------------------------------------------------------------------ moderation
\* C27: after a load that is not a dry run, has a client and met no
\* persistence error, every stored record whose key is in the list is active
\* and approved, whatever is_active and moderation_status it held when the
\* load started.
C27_UpdateReapproves ==
    CleanLoad(1)
    => \A row \in store :
          Key(row) \in KeysOf(events[1])
          => row.is_active /\ row.moderation_status = "approved"

C27_Witness ==
    /\ CleanLoad(1)
    /\ updated_count[1] = 1
    /\ \E old \in startStore[1] :
          /\ ~old.is_active
          /\ old.moderation_status = "rejected"
          /\ \E row \in store :
                /\ row.id = old.id
                /\ row.is_active
                /\ row.moderation_status = "approved"

\* ------------------------------------------------------------------ no persistence client
\* C28: a CLI run that is not a dry run and whose load() found no persistence
\* client wrote nothing, counted every transformed event as failed and none
\* as new or updated, carries no error message, and the process exits 0.
C28_NoClientStillSucceeds ==
    (/\ driver_pc = "exit"
     /\ rpc[1] = "returned"
     /\ load_calls[1] = 1
     /\ supabase[1] = None
     /\ ~dry_run[1])
    => /\ store = startStore[1]
       /\ db_writes[1] = 0
       /\ <<new_count[1], updated_count[1], failed_count[1]>> = <<0, 0, Len(events[1])>>
       /\ result[1] = ScraperResult(adapter[1], Len(raw_events[1]), 0, 0,
                                    transform_failed[1] + Len(transformed[1]), None)
       /\ exit_code = 0

C28_Witness ==
    /\ driver_pc = "exit"
    /\ rpc[1] = "returned"
    /\ load_calls[1] = 1
    /\ supabase[1] = None
    /\ ~dry_run[1]
    /\ Len(transformed[1]) = 2
    /\ result[1].events_failed = 2
    /\ result[1].error_message = None
    /\ exit_code = 0

\* ------------------------------------------------------------------ nothing is removed
\* C29: no step of any run removes a stored record, changes its key or
\* deactivates it, so the stored keys only grow; and a step changes a stored
\* record only when a load is writing an event with that record's key: a
\* record whose key no later feed lists stays exactly as it is.
C29_NothingRemoved ==
    [][\A row \in store :
          /\ \E new \in store' :
                /\ new.id = row.id
                /\ Key(new) = Key(row)
                /\ row.is_active => new.is_active
          /\ (\A r \in Runs : pc[r] = "write" => Key(CurrentEvent(r)) # Key(row))
             => row \in store']_vars

C29_Witness ==
    /\ CleanLoad(1) /\ CleanLoad(2)
    /\ events[1] # <<>> /\ events[2] # <<>>
    /\ SourceOf(1) = SourceOf(2)
    /\ new_count[1] = 2
    /\ updated_count[2] = 1
    /\ \E row \in store :
          /\ Key(row) \in KeysOf(events[1]) \ KeysOf(events[2])
          /\ row \in startStore[2]

\* ------------------------------------------------------------------ one key twice in a list
\* C30: a load that is not a dry run, met no persistence error and received
\* two events with the same key, not stored before, leaves one record for the
\* key, holding the fields of the second event, and returns (1, 1, 0).
C30_SameKeyTwice ==
    \A r \in Runs :
        (/\ CleanLoad(r)
         /\ \A q \in Runs : q > r => pc[q] = "idle"
         /\ Len(events[r]) = 2
         /\ Key(events[r][1]) = Key(events[r][2])
         /\ RowsFor(startStore[r], events[r]) = {})
        => /\ Cardinality(RowsFor(store, events[r])) = 1
           /\ \A row \in RowsFor(store, events[r]) : row.payload = events[r][2].payload
           /\ <<new_count[r], updated_count[r], failed_count[r]>> = <<1, 1, 0>>

C30_Witness ==
    /\ CleanLoad(2)
    /\ Len(events[2]) = 2
    /\ Key(events[2][1]) = Key(events[2][2])
    /\ events[2][1].payload # events[2][2].payload
    /\ RowsFor(startStore[2], events[2]) = {}
    /\ startStore[2] # {}
    /\ Cardinality(store) = Cardinality(startStore[2]) + 1
    /\ <<new_count[2], updated_count[2], failed_count[2]>> = <<1, 1, 0>>

====
